---------------------------- MODULE Spec2Model ----------------------------
(***************************************************************************)
(* Model of the decoding core of src/main.py: top_k_top_p_filtering (the   *)
(* distribution filter) and generate (the sampling loop).                   *)
(*                                                                         *)
(* Numbers.  Logits are real numbers in the program.  Here a finite logit  *)
(* is an integer counted in units of ln 2, so that exp(logit) = 2^logit    *)
(* and softmax is computed exactly with rational arithmetic: a probability *)
(* is a numerator over the sum of the numerators.  -float('Inf') is the    *)
(* value NegInf, which is below every finite logit of the model and has    *)
(* exp(NegInf) = 0.  The divisions of generate are exact: the logits the   *)
(* model returns are multiples of every product of a penalty and a         *)
(* temperature of the model (Quot has no value otherwise).  Floating-point *)
(* rounding and overflow are not modelled.                                 *)
(* Token ids are 0 .. vocab-1, as in the program; a logits vector is a     *)
(* function on 0 .. vocab-1.                                               *)
(***************************************************************************)
EXTENDS Integers, Sequences, FiniteSets

VARIABLES
    \* ---- generate: arguments
    vocab,               \* vocabulary size = length of the model's logits
    unk,                 \* tokenizer.convert_tokens_to_ids('[UNK]')
    context,             \* the prefix token ids
    length,
    n_ctx,
    temperature,
    top_k,
    top_p,               \* a rational [num, den]
    repitition_penalty,
    \* ---- generate: locals
    pc,                  \* "loop" | "done" | "RuntimeError" ; "filter" in FilterSpec
    i,                   \* completed iterations of `for _ in trange(length)`
    generated,
    inputs,              \* input_ids of the last model call
    outputs,             \* the logits the last model call returned
    penalized,           \* next_token_logits after the repetition-penalty loop
    filtered_logits,
    \* ---- top_k_top_p_filtering called on its own
    logits,              \* the argument as the caller passed it
    result,              \* returned by the call with (top_k, top_p)
    result_p             \* returned by the call with (0, top_p) on the same input

vars == <<vocab, unk, context, length, n_ctx, temperature, top_k, top_p,
          repitition_penalty, pc, i, generated, inputs, outputs, penalized,
          filtered_logits, logits, result, result_p>>

gen_args == <<vocab, unk, context, length, n_ctx, temperature, top_k, top_p,
              repitition_penalty>>

-----------------------------------------------------------------------------
(* Bounds of the model *)

\* largest vocabulary top_k_top_p_filtering is called on directly
MaxVocab == 3
\* largest `length` of generate
MaxLength == 2

\* -float('Inf')
NegInf == -1000000

\* a vector not yet computed
None == <<>>

Ids(V) == 0 .. (V - 1)

Max(a, b) == IF a >= b THEN a ELSE b
Min(a, b) == IF a <= b THEN a ELSE b

\* the logits a model call may return in generate (multiples of 4: see Quot)
ModelLogits == {-4, 4}
\* the logits top_k_top_p_filtering is called on directly
FilterLogits == {-1, 0, 1, 2}

Rat(n, d) == [num |-> n, den |-> d]
GenTopP == {Rat(0, 1), Rat(1, 2)}
FilterTopP == {Rat(0, 1), Rat(1, 4), Rat(1, 2), Rat(3, 4), Rat(1, 1)}
GenTopK == {-1, 0, 2}
GenTemperature == {1, 2}
GenPenalty == {1, 2}
GenNCtx == {1, 3}
PrefixLen == {1, 2}
GenVocab == {1, 2, 3}

-----------------------------------------------------------------------------
(* top_k_top_p_filtering *)

\* torch.sort(logits, descending=True)[1]: position r (1-based here) holds the
\* id of the r-th largest entry; equal entries keep their index order.
sorted_indices(l) ==
    LET rank == [a \in DOMAIN l |->
                   Cardinality({b \in DOMAIN l :
                       l[b] > l[a] \/ (l[b] = l[a] /\ b < a)})]
    IN [r \in 1 .. Cardinality(DOMAIN l) |->
            CHOOSE a \in DOMAIN l : rank[a] = r - 1]

\* torch.topk(logits, top_k)[0][..., -1, None]: the k-th largest value
topk_last(l, k) == l[sorted_indices(l)[k]]

\* faulty variant of top_k_remove: <= for <, so the threshold's ties are removed
top_k_remove_le(l, k) ==
    LET threshold == topk_last(l, k)
    IN [a \in DOMAIN l |-> IF l[a] <= threshold THEN NegInf ELSE l[a]]

\* faulty variant of top_k_remove: > for <, so the largest entries are removed
top_k_remove_gt(l, k) ==
    LET threshold == topk_last(l, k)
    IN [a \in DOMAIN l |-> IF l[a] > threshold THEN NegInf ELSE l[a]]

\* logits[logits < threshold] = filter_value
top_k_remove(l, k) ==
    LET threshold == topk_last(l, k)
    IN [a \in DOMAIN l |-> IF l[a] < threshold THEN NegInf ELSE l[a]]

\* numerators of F.softmax over the entries x of a vector: exp(x) scaled by a
\* power of two common to the vector.  All entries -inf gives nan everywhere,
\* which is the numerator 0 over the denominator 0.
softmax(l) ==
    LET finite == {l[j] : j \in DOMAIN l} \ {NegInf}
        lo == CHOOSE m \in finite : \A y \in finite : m <= y
    IN [a \in DOMAIN l |->
          IF finite = {} \/ l[a] = NegInf THEN 0 ELSE 2 ^ (l[a] - lo)]

\* numerators of torch.cumsum(F.softmax(sorted_logits)), by sorted position
RECURSIVE cumsum(_, _, _)
cumsum(w, s, r) == IF r = 0 THEN 0 ELSE w[s[r]] + cumsum(w, s, r - 1)

cumulative_probs(l, s) ==
    LET w == softmax(l)
    IN [r \in DOMAIN s |-> cumsum(w, s, r)]

\* faulty variant of sorted_indices_to_remove: the mask is neither shifted nor
\* cleared at position 0
sorted_indices_to_remove_unguarded(cum, p) ==
    LET den == cum[Len(cum)]
    IN [r \in DOMAIN cum |-> den > 0 /\ cum[r] * p.den > p.num * den]

\* faulty variant of sorted_indices_to_remove: position 0 is cleared but the
\* mask is not shifted
sorted_indices_to_remove_unshifted(cum, p) ==
    LET den == cum[Len(cum)]
    IN [r \in DOMAIN cum |->
          IF r = 1 THEN FALSE
          ELSE den > 0 /\ cum[r] * p.den > p.num * den]

\* cumulative_probs > top_p, shifted right by one, position 0 cleared
\* (the last cumulative sum is the denominator; a comparison with nan is False)
sorted_indices_to_remove(cum, p) ==
    LET den == cum[Len(cum)]
    IN [r \in DOMAIN cum |->
          IF r = 1 THEN FALSE
          ELSE den > 0 /\ cum[r - 1] * p.den > p.num * den]

\* logits[sorted_indices[sorted_indices_to_remove]] = filter_value
top_p_remove(l, p) ==
    LET s == sorted_indices(l)
        rm == sorted_indices_to_remove(cumulative_probs(l, s), p)
        gone == {s[r] : r \in {q \in DOMAIN s : rm[q]}}
    IN [a \in DOMAIN l |-> IF a \in gone THEN NegInf ELSE l[a]]

\* faulty variant of top_k_top_p_filtering: top_p >= 0.0 for top_p > 0.0
top_k_top_p_filtering_ge(l, k, p) ==
    LET kk == Min(k, Cardinality(DOMAIN l))
        l1 == IF kk > 0 THEN top_k_remove(l, kk) ELSE l
    IN IF p.num * p.den >= 0 THEN top_p_remove(l1, p) ELSE l1

\* the function: top-k (lines 21-25), then top-p (lines 27-38), on one vector
top_k_top_p_filtering(l, k, p) ==
    LET kk == Min(k, Cardinality(DOMAIN l))
        l1 == IF kk > 0 THEN top_k_remove(l, kk) ELSE l
    IN IF p.num * p.den > 0 THEN top_p_remove(l1, p) ELSE l1

-----------------------------------------------------------------------------
(* generate *)

\* Python's seq[start:] for any integer start
SliceFrom(seq, start) ==
    LET n == Len(seq)
        from == IF start < 0 THEN Max(n + start, 0) ELSE Min(start, n)
    IN SubSeq(seq, from + 1, n)

\* generated[0][-(n_ctx - 1):]
window(seq, n) == SliceFrom(seq, -(n - 1))

Range(seq) == {seq[j] : j \in DOMAIN seq}

\* x / d for the values of the model, where d > 0 divides x (no value otherwise)
Quot(x, d) == IF x % d = 0 THEN x \div d ELSE CHOOSE q \in {} : TRUE

\* for id in set(generated): next_token_logits[id] /= repitition_penalty
\* (set(generated) holds the one row of the 1 x n tensor, which indexes every
\* id of the sequence; each such entry is read once and divided once)
penalize(l, seq, penalty) ==
    [a \in DOMAIN l |-> IF a \in Range(seq) THEN Quot(l[a], penalty) ELSE l[a]]

\* next_token_logits / temperature
scale(l, t) == [a \in DOMAIN l |-> Quot(l[a], t)]

\* faulty variant of suppress: the [UNK] logit is left as it is
suppress_skipped(l, id) == l

\* next_token_logits[unk] = -float('Inf')
suppress(l, id) == [a \in DOMAIN l |-> IF a = id THEN NegInf ELSE l[a]]

\* ids with non-zero probability in F.softmax(filtered_logits)
candidates(l) == {a \in DOMAIN l : l[a] # NegInf}

Seqs(S, lens) == UNION {[1 .. n -> S] : n \in lens}

InitGenerate ==
    /\ vocab \in GenVocab
    /\ unk \in Ids(vocab)
    /\ context \in Seqs(Ids(vocab), PrefixLen)
    /\ length \in 0 .. MaxLength
    /\ n_ctx \in GenNCtx
    /\ temperature \in GenTemperature
    /\ top_k \in GenTopK
    /\ top_p \in GenTopP
    /\ repitition_penalty \in GenPenalty
    /\ pc = "loop"
    /\ i = 0
    /\ generated = context
    /\ inputs = None
    /\ outputs = None
    /\ penalized = None
    /\ filtered_logits = None
    /\ logits = None
    /\ result = None
    /\ result_p = None

\* faulty variant of in_trange: the loop stops one iteration early
in_trange_short(k, n) == k < n - 1

\* for _ in trange(length): the loop has an iteration number k (from 0)
in_trange(k, n) == k < n

\* one iteration of the loop of generate
Step ==
    /\ pc = "loop"
    /\ in_trange(i, length)
    /\ \E out \in [Ids(vocab) -> ModelLogits] :
         LET pen == penalize(out, generated, repitition_penalty)
             ntl == suppress(scale(pen, temperature), unk)
             fl  == top_k_top_p_filtering(ntl, top_k, top_p)
         IN /\ inputs' = window(generated, n_ctx)
            /\ outputs' = out
            /\ penalized' = pen
            /\ filtered_logits' = fl
            /\ IF candidates(fl) = {}
               THEN \* torch.multinomial raises on a nan distribution
                    /\ pc' = "RuntimeError"
                    /\ UNCHANGED <<generated, i>>
               ELSE \E next_token \in candidates(fl) :
                    /\ generated' = Append(generated, next_token)
                    /\ i' = i + 1
                    /\ pc' = pc
    /\ UNCHANGED <<gen_args, logits, result, result_p>>

\* return generated.tolist()[0]
Return ==
    /\ pc = "loop"
    /\ ~in_trange(i, length)
    /\ pc' = "done"
    /\ UNCHANGED <<gen_args, i, generated, inputs, outputs, penalized,
                   filtered_logits, logits, result, result_p>>

Next == Step \/ Return

Spec == InitGenerate /\ [][Next]_vars

-----------------------------------------------------------------------------
(* Properties of generate, checked under Spec *)

\* the configuration section 7 of the specification calls valid
ValidConfig ==
    /\ length > 0
    /\ temperature > 0
    /\ repitition_penalty > 0
    /\ top_k >= 0
    /\ top_p.num >= 0
    /\ top_p.num <= top_p.den

\* an iteration of the loop has run (to its end or to the sampler's error)
Stepped == outputs # None

\* the sequence the last iteration started from
Before ==
    IF pc = "RuntimeError" THEN generated
    ELSE SubSeq(generated, 1, Len(generated) - 1)

IsSuffix(t, seq) ==
    Len(t) <= Len(seq) /\ t = SubSeq(seq, Len(seq) - Len(t) + 1, Len(seq))

\* C1: the sequence is always the prefix followed by one token per completed
\* iteration; generate returns, for length >= 1, after exactly `length`
\* iterations, so with len(prefix) + length tokens; every step leaves the
\* sequence alone or appends one token to it.
C1_SequenceGrowth ==
    /\ [](/\ Len(generated) = Len(context) + i
          /\ SubSeq(generated, 1, Len(context)) = context
          /\ (pc = "done" /\ length >= 1 =>
                Len(generated) = Len(context) + length))
    /\ [][\/ generated' = generated
          \/ /\ Len(generated') = Len(generated) + 1
             /\ SubSeq(generated', 1, Len(generated)) = generated]_vars

C1_Witness ==
    /\ pc = "done"
    /\ length = 2
    /\ Len(context) = 2
    /\ Len(generated) = 4
    /\ generated[3] # generated[4]

\* C2: the context of every model call is a trailing part of the sequence and
\* holds at most n_ctx - 1 tokens.
C2_WindowBound ==
    Stepped => IsSuffix(inputs, Before) /\ Len(inputs) <= n_ctx - 1

\* C3: under a valid configuration no generated token is the [UNK] id.
C3_UnkNeverGenerated ==
    ValidConfig =>
        \A j \in (Len(context) + 1) .. Len(generated) : generated[j] # unk

\* two tokens were generated although the model scored [UNK] highest
C3_Witness ==
    /\ ValidConfig
    /\ pc = "done"
    /\ i = 2
    /\ vocab = 3
    /\ \A a \in Ids(vocab) : a # unk => outputs[a] < outputs[unk]

\* C8: with an invalid configuration generate neither queries the model nor
\* returns a sequence.
C8_InvalidConfigRejected ==
    ~ValidConfig => ~Stepped /\ pc # "done"

\* C9: under a valid configuration the sampler always has a candidate.
C9_AlwaysACandidate ==
    ValidConfig =>
        /\ pc # "RuntimeError"
        /\ (Stepped => candidates(filtered_logits) # {})

\* C9, amended: the same when the vocabulary has a token other than [UNK].
C9_CandidateBesideUnk ==
    ValidConfig /\ vocab >= 2 =>
        /\ pc # "RuntimeError"
        /\ (Stepped => candidates(filtered_logits) # {})

\* top-k and top-p together left one candidate out of three
C9_Witness ==
    /\ ValidConfig
    /\ Stepped
    /\ vocab = 3
    /\ top_k > 0
    /\ top_p.num > 0
    /\ Cardinality({a \in Ids(vocab) : outputs[a] = 4} \ {unk}) = 2
    /\ Cardinality(candidates(filtered_logits)) = 1

\* C10: with repetition_penalty > 1 the penalty step never raises the logit of
\* an id present in the sequence and leaves the other logits unchanged.
C10_PenaltyDampens ==
    Stepped /\ repitition_penalty > 1 =>
        \A a \in Ids(vocab) :
            IF a \in Range(Before)
            THEN penalized[a] <= outputs[a]
            ELSE penalized[a] = outputs[a]

-----------------------------------------------------------------------------
(* top_k_top_p_filtering on its own: two calls on copies of one input *)

InitFilter ==
    /\ vocab \in 1 .. MaxVocab
    /\ logits \in [Ids(vocab) -> FilterLogits]
    /\ top_k \in 0 .. (MaxVocab + 1)
    /\ top_p \in FilterTopP
    /\ result = None
    /\ result_p = None
    /\ pc = "filter"
    /\ unk = 0
    /\ context = <<>>
    /\ length = 0
    /\ n_ctx = 1
    /\ temperature = 1
    /\ repitition_penalty = 1
    /\ i = 0
    /\ generated = <<>>
    /\ inputs = None
    /\ outputs = None
    /\ penalized = None
    /\ filtered_logits = None

CallFilter ==
    /\ pc = "filter"
    /\ result = None
    /\ result' = top_k_top_p_filtering(logits, top_k, top_p)
    /\ UNCHANGED <<gen_args, pc, i, generated, inputs, outputs, penalized,
                   filtered_logits, logits, result_p>>

CallFilterTopPOnly ==
    /\ pc = "filter"
    /\ result_p = None
    /\ result_p' = top_k_top_p_filtering(logits, 0, top_p)
    /\ UNCHANGED <<gen_args, pc, i, generated, inputs, outputs, penalized,
                   filtered_logits, logits, result>>

NextFilter == CallFilter \/ CallFilterTopPOnly

FilterSpec == InitFilter /\ [][NextFilter]_vars

-----------------------------------------------------------------------------
(* Properties of top_k_top_p_filtering, checked under FilterSpec *)

Survivors(r) == {a \in DOMAIN r : r[a] # NegInf}

\* a comes before b in descending order (equal entries in index order)
Outranks(a, b) == logits[a] > logits[b] \/ (logits[a] = logits[b] /\ a < b)

\* exp(logits[a]) over exp(least logit): the softmax probability of a over the
\* input vector is Weight(a) / Mass(DOMAIN logits)
Weight(a) ==
    LET least == CHOOSE m \in Range(logits) : \A y \in Range(logits) : m <= y
    IN 2 ^ (logits[a] - least)

RECURSIVE Mass(_)
Mass(S) ==
    IF S = {} THEN 0
    ELSE LET a == CHOOSE x \in S : TRUE IN Weight(a) + Mass(S \ {a})

\* Mass(S) / Mass(all) compared with top_p
MassAtLeastP(m) == m * top_p.den >= top_p.num * Mass(DOMAIN logits)
MassAboveP(m) == m * top_p.den > top_p.num * Mass(DOMAIN logits)

\* the survivor that comes last in descending order
LowestSurvivor(S) == CHOOSE a \in S : \A b \in S \ {a} : Outranks(b, a)

IsDescendingPrefix(S) ==
    \A a \in S : \A b \in DOMAIN logits \ S : Outranks(a, b)

ProperP == 0 < top_p.num /\ top_p.num < top_p.den

\* C4: with top_p = 0 and 1 <= top_k <= vocabulary size the survivors are the
\* entries >= the top_k-th largest value: at least top_k of them, and exactly
\* top_k when no other entry equals that value; a larger top_k removes nothing.
C4_TopKSurvivors ==
    result # None /\ top_p.num = 0 /\ top_k >= 1 =>
        IF top_k > vocab
        THEN result = logits
        ELSE \E v \in Range(logits) :
               /\ Cardinality({a \in Ids(vocab) : logits[a] > v}) < top_k
               /\ Cardinality({a \in Ids(vocab) : logits[a] >= v}) >= top_k
               /\ Survivors(result) = {a \in Ids(vocab) : logits[a] >= v}
               /\ \A a \in Survivors(result) : result[a] = logits[a]
               /\ Cardinality(Survivors(result)) >= top_k
               /\ (Cardinality({a \in Ids(vocab) : logits[a] = v}) = 1 =>
                     Cardinality(Survivors(result)) = top_k)

\* a tie at the threshold keeps three entries for top_k = 2 ...
C4_Witness ==
    /\ result # None
    /\ top_p.num = 0
    /\ top_k = 2
    /\ vocab = 3
    /\ logits[0] > logits[1]
    /\ logits[1] = logits[2]
    /\ Cardinality(Survivors(result)) = 3

C6_TopKThenTopPSubset ==
    result # None /\ result_p # None /\ top_p.num > 0 =>
        Survivors(result) \subseteq Survivors(result_p)

\* top-k removed an entry that top-p alone keeps
C6_Witness ==
    /\ result # None
    /\ result_p # None
    /\ ProperP
    /\ top_k = 1
    /\ vocab = 3
    /\ Cardinality(Survivors(result)) = 1
    /\ Cardinality(Survivors(result_p)) = 2

\* C7: the result has the length of the input, every entry is the input's
\* entry or filter_value, and top_k = 0, top_p = 0.0 returns the input.
C7_Frame ==
    result # None =>
        /\ DOMAIN result = DOMAIN logits
        /\ \A a \in DOMAIN logits : result[a] = logits[a] \/ result[a] = NegInf
        /\ (top_k = 0 /\ top_p.num = 0 => result = logits)

\* both filters on: an entry replaced, an entry retained
C7_Witness ==
    /\ result # None
    /\ top_k = 2
    /\ ProperP
    /\ vocab = 3
    /\ result[0] = NegInf
    /\ result[1] = logits[1]
    /\ result[2] = NegInf

=============================================================================
